---- MODULE Spec2Model ----
(***************************************************************************)
(* Placement portal: the application scoring, ranking and round            *)
(* progression core of backend/server.py and backend/utils.                *)
(*                                                                         *)
(* Each HTTP request is a coroutine; every `await` on the storage or the   *)
(* mail collaborator is a suspension point, so a request is modelled as a  *)
(* task whose steps (one per awaited storage/mail operation together with  *)
(* the synchronous code up to the next await) interleave freely with the   *)
(* steps of the other tasks.                                               *)
(***************************************************************************)
EXTENDS Integers, Sequences, FiniteSets, TLC

(* ------------------------------ bounds ------------------------------- *)

\* Largest number of applications already stored when the behaviour starts.
MaxStored == 2
\* Longest application_ids list a batch request carries.
MaxBatch == 2
\* Largest reading of the wall clock (datetime.now); stored applications
\* were created at reading 0.
MaxClock == 1
\* Number of requests that may be started in one behaviour.
MaxCalls == 2

\* Longest skill list passed to score_resume.
MaxSkills == 2
\* Largest number of stored applications a ranking is computed over.
MaxRanked == 4

(* --------------------------- static storage -------------------------- *)

\* Concurrent request slots of the event loop.
Tasks == {"t1", "t2"}
TaskOrder == [t \in Tasks |-> IF t = "t1" THEN 1 ELSE 2]

None == "None"

\* db.users: never written by the routes under study.
users ==
  [u \in {"s1", "s2", "s3", "tpo"} |->
     [email |-> IF u = "tpo" THEN "tpo@college.edu"
                ELSE IF u = "s1" THEN "s1@college.edu"
                ELSE IF u = "s2" THEN "s2@college.edu" ELSE "s3@college.edu",
      name  |-> u,
      role  |-> IF u = "tpo" THEN "tpo" ELSE "student"]]

\* db.profiles; s3 has not completed a profile.  cgpa is in tenths.
profiles ==
  [u \in {"s1", "s2"} |->
     [resume_text |-> IF u = "s1" THEN "python developer" ELSE "",
      skills      |-> IF u = "s1" THEN <<"Python", "SQL">> ELSE <<"java">>,
      cgpa        |-> IF u = "s1" THEN 85 ELSE 60]]

\* db.drives.  min_cgpa is in tenths.
drives ==
  [d \in {"d1", "d2"} |->
     [company_name    |-> IF d = "d1" THEN "Acme" ELSE "Globex",
      role            |-> "Engineer",
      description     |-> IF d = "d1" THEN "python developer" ELSE "",
      required_skills |-> IF d = "d1" THEN <<"python", "java">> ELSE <<>>,
      min_cgpa        |-> IF d = "d1" THEN 70 ELSE 0]]

\* drive_id values a request may carry; "d9" names no drive.
DriveIdInputs == {"d1", "d2", "d9"}

\* drive_id values a select-for-round request may carry.
SelectDriveInputs == {"d1", "d9"}

\* next_round values a select-for-round request may carry.
NextRoundInputs == {"Coding", "Selected"}

\* application ids a batch may carry: those of the stored applications and
\* the next one, which matches nothing until an apply request creates it.
AppIdInputs == 1 .. (MaxStored + 1)

RECURSIVE SeqsUpTo(_, _)
SeqsUpTo(S, n) ==
  IF n = 0 THEN {<<>>}
  ELSE LET shorter == SeqsUpTo(S, n - 1)
       IN  shorter \cup {Append(s, x) : s \in {q \in shorter : Len(q) = n - 1}, x \in S}

BatchInputs == SeqsUpTo(AppIdInputs, MaxBatch)

\* Arguments of score_resume: resume text (missing, empty, or a text), job
\* description, skill lists with duplicates and case variants, and CGPAs in
\* tenths (negative, zero, below and at the thresholds, above 10.0).
ResumeTextInputs == {None, "", "python developer", "java developer"}
JobDescriptionInputs == {"", "python developer"}
SkillInputs == {"Python", "python", "java", "sql"}
SkillListInputs == SeqsUpTo(SkillInputs, MaxSkills)
CgpaInputs == {-10, 0, 30, 35, 60, 70, 72, 85, 120}
MinCgpaInputs == {-10, 0, 35, 70, 72}

\* ai_score values (hundredths) of the applications a ranking is computed
\* over: 40.0, 72.5 and 91.0.
RankScoreInputs == {4000, 7250, 9100}

(* ------------------------- score_resume (pure) ----------------------- *)
(* Scores are exact rationals counted in hundredths of a point; CGPA     *)
(* values are counted in tenths.                                         *)

\* str.lower() on the skill strings that occur in the model.
lower(s) ==
  CASE s = "Python" -> "python"
    [] s = "SQL"    -> "sql"
    [] s = "Java"   -> "java"
    [] OTHER        -> s

SeqToSet(q) == {q[k] : k \in 1 .. Len(q)}

\* cosine_similarity of the two TF-IDF vectors (TfidfVectorizer defaults),
\* in ten-thousandths: identical texts give 1.0, texts without a common term
\* give 0.0, and "python developer" against "java developer" gives
\* 1 / (1 + (1 + ln 1.5)^2) = 0.3361.
cosine_similarity(resume_text, job_description) ==
  IF resume_text = job_description THEN 10000
  ELSE IF {resume_text, job_description} = {"python developer", "java developer"}
       THEN 3361
       ELSE 0

\* text_score, but a missing or empty text earns the full 60 points.
text_score_default_full(resume_text, job_description) ==
  IF resume_text # "" /\ resume_text # None /\ job_description # ""
  THEN [num |-> cosine_similarity(resume_text, job_description) * 60, den |-> 100]
  ELSE [num |-> 6000, den |-> 1]

\* Text similarity score (60% weight) as the fraction num/den of hundredths.
text_score(resume_text, job_description) ==
  IF resume_text # "" /\ resume_text # None /\ job_description # ""
  THEN [num |-> cosine_similarity(resume_text, job_description) * 60, den |-> 100]
  ELSE [num |-> 0, den |-> 1]

\* skills_score, but counting the matching entries of the student's list.
skills_score_count_entries(student_skills, required_skills) ==
  IF Len(required_skills) > 0 /\ Len(student_skills) > 0
  THEN LET required == {lower(s) : s \in SeqToSet(required_skills)}
           matched  == {k \in 1 .. Len(student_skills) : lower(student_skills[k]) \in required}
       IN  [num |-> Cardinality(matched) * 3000, den |-> Len(required_skills)]
  ELSE [num |-> 0, den |-> 1]

\* skills_score without the guards on empty lists.
skills_score_unguarded(student_skills, required_skills) ==
  LET matched_skills == {lower(s) : s \in SeqToSet(student_skills)}
                        \cap {lower(s) : s \in SeqToSet(required_skills)}
  IN  [num |-> Cardinality(matched_skills) * 3000, den |-> Len(required_skills)]

\* Skills match score (30% weight) as the fraction num/den of hundredths.
skills_score(student_skills, required_skills) ==
  IF Len(required_skills) > 0 /\ Len(student_skills) > 0
  THEN LET matched_skills == {lower(s) : s \in SeqToSet(student_skills)}
                             \cap {lower(s) : s \in SeqToSet(required_skills)}
       IN  [num |-> Cardinality(matched_skills) * 3000, den |-> Len(required_skills)]
  ELSE [num |-> 0, den |-> 1]

\* The floating-point error of (student_cgpa / 10.0) * 10 against
\* student_cgpa, for CGPAs given in tenths from -20.0 to 20.0: -1 when the
\* double computed is the one next below student_cgpa, 1 when it is the one
\* next above, 0 when the two are the same double.
cgpa_normalized_error(student_cgpa) ==
  IF student_cgpa \in {-156, -139, -131, -114, -106, -78, -57, -53, -39,
                       9, 17, 18, 34, 36, 68, 72, 111, 119, 136, 144}
  THEN -1
  ELSE IF student_cgpa \in {-144, -136, -119, -111, -72, -68, -36, -34, -18, -17, -9,
                            39, 53, 57, 78, 106, 114, 131, 139, 156}
       THEN 1
       ELSE 0

\* cgpa_score, but a student below the threshold gets nothing.
cgpa_score_excluding(student_cgpa, min_cgpa) ==
  IF student_cgpa >= min_cgpa
  THEN [num |-> student_cgpa * 10, den |-> 1,
        err |-> cgpa_normalized_error(student_cgpa)]
  ELSE [num |-> 0, den |-> 1, err |-> 0]

\* cgpa_score, but the threshold itself is not eligible.
cgpa_score_strict(student_cgpa, min_cgpa) ==
  IF student_cgpa > min_cgpa
  THEN [num |-> student_cgpa * 10, den |-> 1,
        err |-> cgpa_normalized_error(student_cgpa)]
  ELSE IF min_cgpa > 0
       THEN [num |-> student_cgpa * 500, den |-> min_cgpa, err |-> 0]
       ELSE [num |-> 0, den |-> 1, err |-> 0]

\* CGPA score (10% weight) as the fraction num/den of hundredths; err is the
\* floating-point error of the computed double against num/den, in units in
\* the last place.
cgpa_score(student_cgpa, min_cgpa) ==
  IF student_cgpa >= min_cgpa
  THEN [num |-> student_cgpa * 10, den |-> 1,
        err |-> cgpa_normalized_error(student_cgpa)]
  ELSE IF min_cgpa > 0
       THEN [num |-> student_cgpa * 500, den |-> min_cgpa, err |-> 0]
       ELSE [num |-> 0, den |-> 1, err |-> 0]

\* round(x, 2) of the fraction num/den of hundredths (den > 0): nearest
\* hundredth, ties to even.
round2(num, den) ==
  LET q == num \div den
      r == num % den
  IN  IF 2 * r < den THEN q
      ELSE IF 2 * r > den THEN q + 1
      ELSE IF q % 2 = 0 THEN q ELSE q + 1

\* total_score = text_score + skills_score + cgpa_score, as a fraction.
total_score(t, sk, cg) ==
  [num |-> t.num * sk.den * cg.den + sk.num * t.den * cg.den
             + cg.num * t.den * sk.den,
   den |-> t.den * sk.den * cg.den]

\* clamp without the lower limit: min(100, total).
clamp_upper_only(total) ==
  IF total.num > 10000 * total.den THEN 10000 * total.den ELSE total.num

\* min(100, max(0, total)) of a fraction of hundredths (den > 0).
clamp(total) ==
  LET lo == IF total.num < 0 THEN 0 ELSE total.num
  IN  IF lo > 10000 * total.den THEN 10000 * total.den ELSE lo

\* score_resume without the clamp: round(total_score, 2).
score_resume_no_clamp(resume_text, student_skills, student_cgpa, job_description, required_skills, min_cgpa) ==
  LET t     == text_score(resume_text, job_description)
      sk    == skills_score(student_skills, required_skills)
      cg    == cgpa_score(student_cgpa, min_cgpa)
      total == total_score(t, sk, cg)
  IN  round2(total.num, total.den)

\* round(min(100, max(0, total_score)), 2), in hundredths of a point.  A
\* rounding error of a sub-score moves the result only from a tie, and no
\* total of the model lies on one.
score_resume(resume_text, student_skills, student_cgpa, job_description, required_skills, min_cgpa) ==
  LET t     == text_score(resume_text, job_description)
      sk    == skills_score(student_skills, required_skills)
      cg    == cgpa_score(student_cgpa, min_cgpa)
      total == total_score(t, sk, cg)
  IN  round2(clamp(total), total.den)

\* The divisions of score_resume raise ZeroDivisionError on a zero divisor.
ZeroDivisionError(student_skills, student_cgpa, required_skills, min_cgpa) ==
  \/ skills_score(student_skills, required_skills).den = 0
  \/ cgpa_score(student_cgpa, min_cgpa).den = 0

(* ------------------------------- state ------------------------------- *)

VARIABLES
  applications,  \* db.applications, in insertion order
  uuids,         \* number of uuid4 values drawn for Application.id
  now,           \* the wall clock read by datetime.now(timezone.utc)
  calls,         \* number of requests started so far
  task,          \* per request slot: the coroutine's locals and position
  scoring        \* one call of score_resume: its arguments and what it returned

vars == <<applications, uuids, now, calls, task, scoring>>

\* No call of score_resume is being observed.
NoScoring == [pc |-> "none"]

\* No response yet; no round_update built yet.
NoResult == [status |-> 0, count |-> 0, emails_sent |-> 0]
NoUpdate == [round |-> None, selected_at |-> 0]

\* A slot with no request in flight.  `updated` and `sends` record, for the
\* request in flight, the ids whose update_one matched a document and the
\* send_email attempts made (recipient and outcome).
IdleTask ==
  [op |-> "idle", pc |-> "idle", user |-> None, drive_id |-> None,
   ids |-> <<>>, next_round |-> None, i |-> 1,
   application |-> None, round_update |-> NoUpdate,
   selected_emails |-> <<>>, k |-> 1, app |-> None, result |-> NoResult,
   updated |-> <<>>, sends |-> <<>>, ranked |-> <<>>]

\* Faulty variant: a new document starts with a history record for Applied.
Application_with_applied_record(id, drive_id, student_id, ai_score, applied_at) ==
  [id |-> id, drive_id |-> drive_id, student_id |-> student_id,
   status |-> "Applied", ai_score |-> ai_score,
   current_round |-> "Applied",
   round_history |-> <<[round |-> "Applied", selected_at |-> applied_at]>>,
   applied_at |-> applied_at]

\* class Application: a new document.
Application(id, drive_id, student_id, ai_score, applied_at) ==
  [id |-> id, drive_id |-> drive_id, student_id |-> student_id,
   status |-> "Applied", ai_score |-> ai_score,
   current_round |-> "Applied", round_history |-> <<>>,
   applied_at |-> applied_at]

(* ------------------------ storage collaborator ----------------------- *)

\* find_one: the first of the matching positions, 0 when there is none.
FirstMatch(matching) ==
  IF matching = {} THEN 0
  ELSE CHOOSE k \in matching : \A m \in matching : k <= m

\* db.applications.find_one({"id": app_id})
find_one_by_id(apps, app_id) ==
  FirstMatch({k \in 1 .. Len(apps) : apps[k].id = app_id})

\* db.applications.find_one({"drive_id": ..., "student_id": ...})
find_one_by_pair(apps, drive_id, student_id) ==
  FirstMatch({k \in 1 .. Len(apps) :
                apps[k].drive_id = drive_id /\ apps[k].student_id = student_id})

\* db.applications.insert_one(app_dict)
insert_one(apps, app_dict) == Append(apps, app_dict)

\* Faulty variant: the update sets current_round but pushes nothing.
update_one_advance_set_only(apps, app_id, next_round, round_update) ==
  [k \in 1 .. Len(apps) |->
     IF apps[k].id = app_id THEN [apps[k] EXCEPT !.current_round = next_round]
     ELSE apps[k]]

\* Faulty variant: the update overwrites round_history with the new record
\* ("$set" in place of "$push").
update_one_advance_overwrite(apps, app_id, next_round, round_update) ==
  [k \in 1 .. Len(apps) |->
     IF apps[k].id = app_id
     THEN [apps[k] EXCEPT !.current_round = next_round,
                          !.round_history = <<round_update>>]
     ELSE apps[k]]

\* update_one({"id": app_id}, {"$set": {"current_round": next_round},
\*                             "$push": {"round_history": round_update}})
update_one_advance(apps, app_id, next_round, round_update) ==
  LET k == find_one_by_id(apps, app_id)
  IN  IF k = 0 THEN apps
      ELSE [apps EXCEPT ![k] =
              [@ EXCEPT !.current_round = next_round,
                        !.round_history = Append(@, round_update)]]

\* Faulty variant: reject pushes a history record as advance does.
update_one_reject_push(apps, app_id) ==
  [k \in 1 .. Len(apps) |->
     IF apps[k].id = app_id
     THEN [apps[k] EXCEPT !.current_round = "Rejected",
                          !.round_history =
                             Append(@, [round |-> "Rejected", selected_at |-> 0])]
     ELSE apps[k]]

\* Faulty variant: the update is an upsert, so an unknown id creates a document.
update_one_reject_upsert(apps, app_id) ==
  IF \E k \in 1 .. Len(apps) : apps[k].id = app_id
  THEN [k \in 1 .. Len(apps) |->
          IF apps[k].id = app_id THEN [apps[k] EXCEPT !.current_round = "Rejected"]
          ELSE apps[k]]
  ELSE Append(apps, [id |-> app_id, current_round |-> "Rejected"])

\* Faulty variant: reject also sets the status field.
update_one_reject_set_status(apps, app_id) ==
  [k \in 1 .. Len(apps) |->
     IF apps[k].id = app_id
     THEN [apps[k] EXCEPT !.current_round = "Rejected", !.status = "Rejected"]
     ELSE apps[k]]

\* update_one({"id": app_id}, {"$set": {"current_round": "Rejected"}})
update_one_reject(apps, app_id) ==
  LET k == find_one_by_id(apps, app_id)
  IN  IF k = 0 THEN apps
      ELSE [apps EXCEPT ![k] = [@ EXCEPT !.current_round = "Rejected"]]

(* ------------------------------ requests ----------------------------- *)

\* Requests are taken by the first free slot (the slots are interchangeable).
\* A slot at "done" has returned its response and keeps it until it is reused.
FreeSlot(t) ==
  /\ task[t].pc \in {"idle", "done"}
  /\ \A u \in Tasks : task[u].pc \in {"idle", "done"} => TaskOrder[t] <= TaskOrder[u]

\* The k-th application already stored: what apply_to_drive inserted for a
\* student with a profile and an existing drive, all at clock reading 0.
StoredApplication(k) ==
  LET student_id == IF k % 2 = 1 THEN "s1" ELSE "s2"
      drive_id   == IF (k - 1) % 4 < 2 THEN "d1" ELSE "d2"
      profile    == profiles[student_id]
      drive      == drives[drive_id]
  IN  Application(k, drive_id, student_id,
                  score_resume(profile.resume_text, profile.skills, profile.cgpa,
                               drive.description, drive.required_skills,
                               drive.min_cgpa),
                  0)

Init ==
  /\ \E n \in 0 .. MaxStored :
       /\ applications = [k \in 1 .. n |-> StoredApplication(k)]
       /\ uuids = n
  /\ now = 0
  /\ calls = 0
  /\ task = [t \in Tasks |-> IdleTask]
  /\ scoring = NoScoring

\* Some timestamp held in storage or by a coroutine equals the current time.
ClockRead ==
  \/ \E k \in 1 .. Len(applications) :
       \/ applications[k].applied_at = now
       \/ \E h \in 1 .. Len(applications[k].round_history) :
            applications[k].round_history[h].selected_at = now
  \/ \E t \in Tasks :
       \/ task[t].pc = "sel_update" /\ task[t].round_update.selected_at = now
       \/ task[t].pc = "apply_insert" /\ task[t].app.applied_at = now

\* The clock advances between any two steps.  Only the order of the readings
\* matters, so a tick is taken only after the current time has been read.
Tick ==
  /\ now < MaxClock
  /\ ClockRead
  /\ now' = now + 1
  /\ UNCHANGED <<scoring, applications, uuids, calls, task>>

\* raise HTTPException(status_code, ...): the coroutine's locals are gone.
Raise(r, status_code) ==
  [IdleTask EXCEPT !.op = r.op, !.pc = "done",
                   !.result = [NoResult EXCEPT !.status = status_code]]

\* POST /applications: the request arrives, role check.
StartApply(t) ==
  /\ FreeSlot(t)
  /\ calls < MaxCalls
  /\ \E user \in DOMAIN users, drive_id \in DriveIdInputs :
       LET r == [IdleTask EXCEPT !.op = "apply", !.user = user,
                                 !.drive_id = drive_id]
       IN  task' = [task EXCEPT ![t] =
                      IF users[user].role # "student"
                      THEN Raise(r, 403)
                      ELSE [r EXCEPT !.pc = "apply_check"]]
  /\ calls' = calls + 1
  /\ UNCHANGED <<scoring, applications, uuids, now>>

\* Faulty variant: the duplicate check does not end the request.
ApplyCheckNoRaise(t) ==
  /\ task[t].pc = "apply_check"
  /\ task' = [task EXCEPT ![t] = [@ EXCEPT !.pc = "apply_lookup"]]
  /\ UNCHANGED <<scoring, applications, uuids, now, calls>>

\* Check if already applied.
ApplyCheck(t) ==
  /\ task[t].pc = "apply_check"
  /\ LET existing == find_one_by_pair(applications, task[t].drive_id, task[t].user)
     IN  task' = [task EXCEPT ![t] =
                    IF existing # 0 THEN Raise(@, 400)
                    ELSE [@ EXCEPT !.pc = "apply_lookup"]]
  /\ UNCHANGED <<scoring, applications, uuids, now, calls>>

\* Get profile and drive, calculate the score, build the Application.
ApplyLookup(t) ==
  /\ task[t].pc = "apply_lookup"
  /\ LET r == task[t]
     IN  IF r.user \notin DOMAIN profiles
         THEN /\ task' = [task EXCEPT ![t] = Raise(@, 400)]
              /\ UNCHANGED uuids
         ELSE IF r.drive_id \notin DOMAIN drives
         THEN /\ task' = [task EXCEPT ![t] = Raise(@, 404)]
              /\ UNCHANGED uuids
         ELSE LET profile  == profiles[r.user]
                  drive    == drives[r.drive_id]
                  ai_score == score_resume(profile.resume_text, profile.skills,
                                           profile.cgpa, drive.description,
                                           drive.required_skills, drive.min_cgpa)
              IN  /\ uuids' = uuids + 1
                  /\ task' = [task EXCEPT ![t] =
                       [@ EXCEPT !.pc = "apply_insert",
                                 !.app = Application(uuids + 1, r.drive_id, r.user,
                                                     ai_score, now)]]
  /\ UNCHANGED <<scoring, applications, now, calls>>

\* insert_one, then return the application.
ApplyInsert(t) ==
  /\ task[t].pc = "apply_insert"
  /\ applications' = insert_one(applications, task[t].app)
  /\ task' = [task EXCEPT ![t] =
                [@ EXCEPT !.pc = "done", !.result = [NoResult EXCEPT !.status = 200]]]
  /\ UNCHANGED <<scoring, uuids, now, calls>>

\* The response of select_for_round: len(application_ids) in the message,
\* len(selected_emails) as emails_sent.
SelectReturn(r) ==
  [r EXCEPT !.pc = "done",
            !.result = [status |-> 200, count |-> Len(r.ids),
                        emails_sent |-> Len(r.selected_emails)]]

\* After the body of `for app_id in application_ids`: the next id, or, the
\* list exhausted, the email loop (the return when there is nobody to mail).
\* `application` and `round_update` are dead until they are assigned again.
SelectNextId(r) ==
  LET n == [r EXCEPT !.i = r.i + 1, !.application = None,
                     !.round_update = NoUpdate]
  IN  IF n.i <= Len(n.ids) THEN [n EXCEPT !.pc = "sel_find"]
      ELSE IF n.selected_emails = <<>> THEN SelectReturn(n)
      ELSE [n EXCEPT !.pc = "sel_send"]

\* POST /tpo/select-for-round: the request arrives, role check, inputs read.
StartSelect(t) ==
  /\ FreeSlot(t)
  /\ calls < MaxCalls
  /\ \E user \in DOMAIN users, ids \in BatchInputs,
        next_round \in NextRoundInputs, drive_id \in SelectDriveInputs :
       LET r == [IdleTask EXCEPT !.op = "select", !.user = user, !.ids = ids,
                                 !.next_round = next_round, !.drive_id = drive_id]
       IN  task' = [task EXCEPT ![t] =
                      IF users[user].role # "tpo"
                      THEN Raise(r, 403)
                      ELSE [r EXCEPT !.pc = "sel_drive"]]
  /\ calls' = calls + 1
  /\ UNCHANGED <<scoring, applications, uuids, now>>

\* Get drive details; selected_emails = [].
SelFindDrive(t) ==
  /\ task[t].pc = "sel_drive"
  /\ task' = [task EXCEPT ![t] =
                IF task[t].drive_id \notin DOMAIN drives THEN Raise(@, 404)
                ELSE SelectNextId([@ EXCEPT !.i = 0])]
  /\ UNCHANGED <<scoring, applications, uuids, now, calls>>

\* Faulty variant: an unknown id ends the request with 404.
SelFindAppRaise(t) ==
  /\ task[t].pc = "sel_find"
  /\ LET r == task[t]
         k == find_one_by_id(applications, r.ids[r.i])
     IN  task' = [task EXCEPT ![t] =
                    IF k = 0 THEN Raise(r, 404)
                    ELSE [r EXCEPT !.pc = "sel_update",
                                   !.application = applications[k].student_id,
                                   !.round_update = [round |-> r.next_round,
                                                     selected_at |-> now]]]
  /\ UNCHANGED <<scoring, applications, uuids, now, calls>>

\* find_one for the current id; on a hit the coroutine resumes, builds
\* round_update with the current time and issues the update.
SelFindApp(t) ==
  /\ task[t].pc = "sel_find"
  /\ LET r == task[t]
         k == find_one_by_id(applications, r.ids[r.i])
     IN  task' = [task EXCEPT ![t] =
                    IF k = 0 THEN SelectNextId(r)
                    ELSE [r EXCEPT !.pc = "sel_update",
                                   !.application = applications[k].student_id,
                                   !.round_update = [round |-> r.next_round,
                                                     selected_at |-> now]]]
  /\ UNCHANGED <<scoring, applications, uuids, now, calls>>

\* Faulty variant: a recipient already collected is not collected again.
StudentLookupDedup(r) ==
  IF r.application \in DOMAIN users
     /\ \A n \in 1 .. Len(r.selected_emails) :
          r.selected_emails[n].email # users[r.application].email
  THEN [r EXCEPT !.selected_emails =
                   Append(@, [email |-> users[r.application].email,
                              name  |-> users[r.application].name])]
  ELSE r

\* The student lookup after the update: `if student:` appends the recipient.
StudentLookup(r) ==
  IF r.application \in DOMAIN users
  THEN [r EXCEPT !.selected_emails =
                   Append(@, [email |-> users[r.application].email,
                              name  |-> users[r.application].name])]
  ELSE r

\* The storage applies the update; then the student's email is looked up.
SelUpdate(t) ==
  /\ task[t].pc = "sel_update"
  /\ LET r == task[t]
         hit == find_one_by_id(applications, r.ids[r.i]) # 0
     IN  /\ applications' = update_one_advance(applications, r.ids[r.i],
                                               r.next_round, r.round_update)
         /\ task' = [task EXCEPT ![t] =
                       SelectNextId(StudentLookup(
                         [r EXCEPT !.updated = IF hit THEN Append(@, r.ids[r.i])
                                               ELSE @]))]
  /\ UNCHANGED <<scoring, uuids, now, calls>>

\* Faulty variant: no try/except around send_email, a failing send ends the request.
SelSendNoCatch(t) ==
  /\ task[t].pc = "sel_send"
  /\ \E ok \in BOOLEAN :
       LET r == task[t]
           n == [r EXCEPT !.k = r.k + 1,
                          !.sends = Append(@, [to |-> r.selected_emails[r.k].email,
                                               ok |-> ok])]
       IN  task' = [task EXCEPT ![t] =
                      IF ~ok THEN [n EXCEPT !.pc = "done",
                                            !.result = [NoResult EXCEPT !.status = 500]]
                      ELSE IF n.k <= Len(n.selected_emails) THEN n
                      ELSE [n EXCEPT !.pc = "done",
                                     !.result = [status |-> 200, count |-> Len(n.ids),
                                                 emails_sent |-> Len(n.selected_emails)]]]
  /\ UNCHANGED <<scoring, applications, uuids, now, calls>>

\* One pass of `for student in selected_emails`: send_email succeeds, or it
\* raises and the handler logs the error; either way the loop goes on.
SelSend(t) ==
  /\ task[t].pc = "sel_send"
  /\ \E ok \in BOOLEAN :
       LET r == task[t]
           n == [r EXCEPT !.k = r.k + 1,
                          !.sends = Append(@, [to |-> r.selected_emails[r.k].email,
                                               ok |-> ok])]
       IN  task' = [task EXCEPT ![t] =
                      IF n.k <= Len(n.selected_emails) THEN n
                      ELSE SelectReturn(n)]
  /\ UNCHANGED <<scoring, applications, uuids, now, calls>>

\* The response of reject_applications: len(application_ids) in the message.
RejectReturn(r) ==
  [r EXCEPT !.pc = "done",
            !.result = [status |-> 200, count |-> Len(r.ids), emails_sent |-> 0]]

\* Faulty variant: the ids are taken from the end of the list.
RejectNextIdReversed(r) ==
  LET n == [r EXCEPT !.i = IF r.i = 0 THEN Len(r.ids) ELSE r.i - 1]
  IN  IF n.i >= 1 THEN [n EXCEPT !.pc = "rej_update"]
      ELSE RejectReturn(n)

\* After the body of `for app_id in application_ids`: the next id or the return.
RejectNextId(r) ==
  LET n == [r EXCEPT !.i = r.i + 1]
  IN  IF n.i <= Len(n.ids) THEN [n EXCEPT !.pc = "rej_update"]
      ELSE RejectReturn(n)

\* POST /tpo/reject-applications: the request arrives, role check.
StartReject(t) ==
  /\ FreeSlot(t)
  /\ calls < MaxCalls
  /\ \E user \in DOMAIN users, ids \in BatchInputs :
       LET r == [IdleTask EXCEPT !.op = "reject", !.user = user, !.ids = ids]
       IN  task' = [task EXCEPT ![t] =
                      IF users[user].role # "tpo"
                      THEN Raise(r, 403)
                      ELSE RejectNextId([r EXCEPT !.i = 0])]
  /\ calls' = calls + 1
  /\ UNCHANGED <<scoring, applications, uuids, now>>

\* The storage applies the update for the current id.
RejUpdate(t) ==
  /\ task[t].pc = "rej_update"
  /\ LET r == task[t]
         hit == find_one_by_id(applications, r.ids[r.i]) # 0
     IN  /\ applications' = update_one_reject(applications, r.ids[r.i])
         /\ task' = [task EXCEPT ![t] =
                       RejectNextId(
                         [r EXCEPT !.updated = IF hit THEN Append(@, r.ids[r.i])
                                               ELSE @])]
  /\ UNCHANGED <<scoring, uuids, now, calls>>

\* db.applications.find({"drive_id": drive_id}).to_list(1000): the matching
\* documents in insertion order.
RECURSIVE find_by_drive(_, _)
find_by_drive(apps, drive_id) ==
  IF apps = << >> THEN << >>
  ELSE IF Head(apps).drive_id = drive_id
       THEN <<Head(apps)>> \o find_by_drive(Tail(apps), drive_id)
       ELSE find_by_drive(Tail(apps), drive_id)

\* Where list.sort(key=ai_score, reverse=True) puts x in a sorted list: after
\* every element whose score is not smaller.
RECURSIVE insert_sorted(_, _)
insert_sorted(sorted, x) ==
  IF sorted = << >> THEN <<x>>
  ELSE IF Head(sorted).ai_score >= x.ai_score
       THEN <<Head(sorted)>> \o insert_sorted(Tail(sorted), x)
       ELSE <<x>> \o sorted

RECURSIVE reversed(_)
reversed(list) ==
  IF list = << >> THEN << >> ELSE Append(reversed(Tail(list)), Head(list))

\* Ascending stable sort of the first n elements.
RECURSIVE sort_ascending(_, _)
sort_ascending(list, n) ==
  IF n = 0 THEN << >>
  ELSE LET sorted == sort_ascending(list, n - 1)
           x      == list[n]
           before == {m \in 1 .. Len(sorted) : sorted[m].ai_score <= x.ai_score}
       IN  SubSeq(sorted, 1, Cardinality(before)) \o <<x>>
             \o SubSeq(sorted, Cardinality(before) + 1, Len(sorted))

\* Faulty variant: an ascending sort followed by a reversal, which turns the
\* order of equal scores around.
sort_then_reverse(list, n) == reversed(sort_ascending(list, n))

\* applications.sort(key=lambda x: x.get('ai_score', 0), reverse=True) of the
\* first n elements: stable, by ai_score descending.
RECURSIVE sort_by_ai_score(_, _)
sort_by_ai_score(list, n) ==
  IF n = 0 THEN << >>
  ELSE insert_sorted(sort_by_ai_score(list, n - 1), list[n])

\* GET /applications/drive/{drive_id}: role check, the find, the sort and the
\* return.  The lookups that enrich each document read db.users and
\* db.profiles only and do not change the order.
GetDriveApplications(t) ==
  /\ FreeSlot(t)
  /\ calls < MaxCalls
  /\ \E user \in DOMAIN users, drive_id \in DriveIdInputs :
       LET r     == [IdleTask EXCEPT !.op = "rank", !.user = user,
                                    !.drive_id = drive_id]
           found == find_by_drive(applications, drive_id)
       IN  task' = [task EXCEPT ![t] =
                      IF users[user].role # "tpo"
                      THEN Raise(r, 403)
                      ELSE [r EXCEPT !.pc = "done",
                                     !.result = [NoResult EXCEPT !.status = 200],
                                     !.ranked = sort_by_ai_score(found, Len(found))]]
  /\ calls' = calls + 1
  /\ UNCHANGED <<scoring, applications, uuids, now>>

Next ==
  \/ Tick
  \/ \E t \in Tasks : GetDriveApplications(t)
  \/ \E t \in Tasks : StartApply(t)
  \/ \E t \in Tasks : ApplyCheck(t)
  \/ \E t \in Tasks : ApplyLookup(t)
  \/ \E t \in Tasks : ApplyInsert(t)
  \/ \E t \in Tasks : StartSelect(t)
  \/ \E t \in Tasks : SelFindDrive(t)
  \/ \E t \in Tasks : SelFindApp(t)
  \/ \E t \in Tasks : SelUpdate(t)
  \/ \E t \in Tasks : SelSend(t)
  \/ \E t \in Tasks : StartReject(t)
  \/ \E t \in Tasks : RejUpdate(t)

Spec == Init /\ [][Next]_vars

\* The batch requests alone: select-for-round and reject-applications calls
\* over the stored applications.  No branch of either handler depends on the
\* clock, which stays at its first reading.
BatchNext ==
  \/ \E t \in Tasks : StartSelect(t)
  \/ \E t \in Tasks : SelFindDrive(t)
  \/ \E t \in Tasks : SelFindApp(t)
  \/ \E t \in Tasks : SelUpdate(t)
  \/ \E t \in Tasks : SelSend(t)
  \/ \E t \in Tasks : StartReject(t)
  \/ \E t \in Tasks : RejUpdate(t)

\* A step of the batch coroutine in slot t: the storage or the mail
\* collaborator answers the awaited call and the coroutine runs to its next
\* await.
BatchStep(t) ==
  SelFindDrive(t) \/ SelFindApp(t) \/ SelUpdate(t) \/ SelSend(t) \/ RejUpdate(t)

\* Every awaited call is answered, and the event loop resumes each coroutine
\* whose await has completed.
FairBatchSpec ==
  Init /\ [][BatchNext]_vars /\ \A t \in Tasks : WF_vars(BatchStep(t))

(* ----------------------- score_resume on its own ---------------------- *)

ZeroScore == [num |-> 0, den |-> 1]

\* A call of score_resume with arguments drawn from the input sets.
ScoreInit ==
  /\ applications = << >>
  /\ uuids = 0
  /\ now = 0
  /\ calls = 0
  /\ task = [t \in Tasks |-> IdleTask]
  /\ \E resume_text \in ResumeTextInputs, job_description \in JobDescriptionInputs,
        student_skills \in SkillListInputs, required_skills \in SkillListInputs,
        student_cgpa \in CgpaInputs, min_cgpa \in MinCgpaInputs :
        scoring = [pc |-> "called",
                   resume_text |-> resume_text, student_skills |-> student_skills,
                   student_cgpa |-> student_cgpa, job_description |-> job_description,
                   required_skills |-> required_skills, min_cgpa |-> min_cgpa,
                   text_score |-> ZeroScore, skills_score |-> ZeroScore,
                   cgpa_score |-> [num |-> 0, den |-> 1, err |-> 0],
                   raised |-> FALSE, ai_score |-> 0]

\* The body of score_resume: the three sub-scores, then the clamped and
\* rounded total, or the exception of a division by zero.
ScoreResume ==
  /\ scoring.pc = "called"
  /\ LET s  == scoring
         t  == text_score(s.resume_text, s.job_description)
         sk == skills_score(s.student_skills, s.required_skills)
         cg == cgpa_score(s.student_cgpa, s.min_cgpa)
     IN  scoring' =
           IF ZeroDivisionError(s.student_skills, s.student_cgpa, s.required_skills, s.min_cgpa)
           THEN [s EXCEPT !.pc = "returned", !.raised = TRUE]
           ELSE [s EXCEPT !.pc = "returned", !.text_score = t, !.skills_score = sk,
                          !.cgpa_score = cg,
                          !.ai_score = score_resume(s.resume_text, s.student_skills,
                                                    s.student_cgpa, s.job_description,
                                                    s.required_skills, s.min_cgpa)]
  /\ UNCHANGED <<applications, uuids, now, calls, task>>

ScoreNext == ScoreResume

ScoreSpec == ScoreInit /\ [][ScoreNext]_vars

(* ------------------------ ranking on its own ------------------------- *)

\* The stored applications a ranking is computed over: up to MaxRanked
\* documents of the two drives, with scores that may repeat.
RankInit ==
  /\ \E n \in 0 .. MaxRanked :
       \E drive_of \in [1 .. n -> DOMAIN drives], score_of \in [1 .. n -> RankScoreInputs] :
         /\ applications = [k \in 1 .. n |->
                              Application(k, drive_of[k],
                                          IF k % 2 = 1 THEN "s1" ELSE "s2",
                                          score_of[k], 0)]
         /\ uuids = n
  /\ now = 0
  /\ calls = 0
  /\ task = [t \in Tasks |-> IdleTask]
  /\ scoring = NoScoring

RankNext == \E t \in Tasks : GetDriveApplications(t)

RankSpec == RankInit /\ [][RankNext]_vars

(* ------------------------------ helpers ------------------------------ *)

IsPrefix(p, q) == Len(p) <= Len(q) /\ \A n \in 1 .. Len(p) : p[n] = q[n]

AppIndex == 1 .. Len(applications)

\* Task t takes a step from position pc.
Steps(t, pc) == task[t].pc = pc /\ task'[t] # task[t]

\* A batch request that returned its normal response.
Returned(t, op) ==
  task[t].op = op /\ task[t].pc = "done" /\ task[t].result.status = 200

(* ------------------------------- claims ------------------------------ *)

\* C1: in every reachable state the applications collection holds at most
\* one Application per (student_id, drive_id) pair.
C1_OnePerPair ==
  \A j, k \in AppIndex :
    (applications[j].student_id = applications[k].student_id
       /\ applications[j].drive_id = applications[k].drive_id) => j = k

\* C2: Rejected is absorbing: once an application's current_round is
\* Rejected, no step changes its current_round or its round_history.
C2_RejectedAbsorbing ==
  [][\A k \in AppIndex :
       applications[k].current_round = "Rejected" =>
         /\ applications'[k].current_round = "Rejected"
         /\ applications'[k].round_history = applications[k].round_history]_vars

\* C3: for an id of a select_for_round batch that matches an application,
\* the lookup is followed by the update, and the update step appends exactly
\* one record {round: next_round, timestamp} to the end of round_history and
\* sets current_round to next_round in the same step, touching nothing else.
C3_AdvanceStep ==
  [][\A t \in Tasks :
       /\ (Steps(t, "sel_find")
             /\ find_one_by_id(applications, task[t].ids[task[t].i]) # 0)
          => task'[t].pc = "sel_update"
       /\ Steps(t, "sel_update") =>
            LET r == task[t]
                k == find_one_by_id(applications, r.ids[r.i])
            IN  /\ k # 0
                /\ Len(applications') = Len(applications)
                /\ r.round_update.round = r.next_round
                /\ r.round_update.selected_at <= now
                /\ applications'[k] =
                     [applications[k] EXCEPT
                        !.current_round = r.next_round,
                        !.round_history = Append(@, r.round_update)]
                /\ \A m \in AppIndex : m # k => applications'[m] = applications[m]]_vars

\* C3 witness: a select_for_round call has returned after advancing an
\* application, whose history now ends with the round of the call.
C3_Witness ==
  \E t \in Tasks :
    /\ Returned(t, "select")
    /\ Len(task[t].updated) > 0
    /\ \E k \in AppIndex :
         /\ applications[k].id = task[t].updated[1]
         /\ applications[k].current_round = task[t].next_round
         /\ Len(applications[k].round_history) = 1

\* C4: for an id of a reject_applications batch that matches an application,
\* the update step sets current_round to Rejected and leaves round_history
\* (and every other application) exactly as it was.
C4_RejectStep ==
  [][\A t \in Tasks :
       Steps(t, "rej_update") =>
         LET r == task[t]
             k == find_one_by_id(applications, r.ids[r.i])
         IN  k # 0 =>
               /\ Len(applications') = Len(applications)
               /\ applications'[k].current_round = "Rejected"
               /\ applications'[k].round_history = applications[k].round_history
               /\ \A m \in AppIndex : m # k => applications'[m] = applications[m]]_vars

\* C4 witness: an application with a non-empty history has been rejected by
\* a call that returned.
C4_Witness ==
  \E t \in Tasks :
    /\ Returned(t, "reject")
    /\ \E k \in AppIndex :
         /\ \E n \in 1 .. Len(task[t].updated) : task[t].updated[n] = applications[k].id
         /\ applications[k].current_round = "Rejected"
         /\ Len(applications[k].round_history) > 0

\* C5: round_history is append-only: in every step each application's
\* previous round_history is a prefix of its next round_history.
C5_AppendOnly ==
  [][/\ Len(applications') >= Len(applications)
     /\ \A k \in AppIndex :
          IsPrefix(applications[k].round_history,
                   applications'[k].round_history)]_vars

\* C5 witness: an application whose history was appended to twice and which
\* was then rejected.
C5_Witness ==
  \E k \in AppIndex :
    /\ Len(applications[k].round_history) >= 2
    /\ applications[k].current_round = "Rejected"

\* C6: in every reachable state the timestamps of each application's
\* round_history are non-decreasing in insertion order.
C6_TimestampsOrdered ==
  \A k \in AppIndex :
    \A m, n \in 1 .. Len(applications[k].round_history) :
      m <= n => applications[k].round_history[m].selected_at
                  <= applications[k].round_history[n].selected_at

\* C7: in a batch advance or reject call, an id that matches no application
\* is skipped (nothing is created, the loop goes on to the next id), an id
\* that matches receives its transition, the call visits every id of its
\* list and, once in its loop, ends with its normal response.
C7_UnknownIdsSkipped ==
  /\ [][\A t \in Tasks :
          LET r == task[t]
              k == find_one_by_id(applications, r.ids[r.i])
          IN  /\ (Steps(t, "sel_find") /\ k = 0) =>
                   /\ applications' = applications
                   /\ task'[t].i = r.i + 1
                   /\ task'[t].updated = r.updated
              /\ (Steps(t, "rej_update") /\ k = 0) =>
                   /\ applications' = applications
                   /\ task'[t].i = r.i + 1
                   /\ task'[t].updated = r.updated
              /\ (Steps(t, "sel_find") /\ k # 0) => task'[t].pc = "sel_update"
              /\ Steps(t, "sel_update") =>
                   /\ applications'[k].current_round = r.next_round
                   /\ task'[t].i = r.i + 1
              /\ (Steps(t, "rej_update") /\ k # 0) =>
                   /\ applications'[k].current_round = "Rejected"
                   /\ task'[t].i = r.i + 1
              /\ (r.pc \in {"sel_find", "sel_update", "sel_send", "rej_update"}
                    /\ task'[t].pc = "done") => task'[t].result.status = 200]_vars
  /\ [](\A t \in Tasks :
          (Returned(t, "select") \/ Returned(t, "reject")) =>
             task[t].i = Len(task[t].ids) + 1)

\* C7 witness: a select call and a reject call have both returned normally
\* after an id that still matches nothing was followed by one that matched.
C7_Witness ==
  \E t, u \in Tasks :
    /\ Returned(t, "select") /\ Returned(u, "reject")
    /\ \A w \in {t, u} :
         /\ Len(task[w].ids) = 2
         /\ find_one_by_id(applications, task[w].ids[1]) = 0
         /\ task[w].updated = <<task[w].ids[2]>>

\* C8: the count in the response of a batch advance or reject call equals
\* the number of ids of the batch that matched an application and were
\* updated.
C8_CountIsMatched ==
  \A t \in Tasks :
    (Returned(t, "select") \/ Returned(t, "reject")) =>
       task[t].result.count = Len(task[t].updated)

\* C9: in select_for_round every update of the batch is committed before
\* the first send is attempted; a send, failing or not, changes no
\* application, is followed by the send to the next recipient, and after the
\* last recipient the call returns its normal response.
C9_SendsAfterUpdates ==
  /\ [](\A t \in Tasks :
          (task[t].op = "select"
             /\ (task[t].pc = "sel_send" \/ task[t].sends # <<>>)) =>
            /\ task[t].i = Len(task[t].ids) + 1
            /\ Len(task[t].updated) = Len(task[t].selected_emails))
  /\ [][\A t \in Tasks :
          Steps(t, "sel_send") =>
            LET r == task[t]
            IN  /\ applications' = applications
                /\ Len(task'[t].sends) = Len(r.sends) + 1
                /\ task'[t].sends[Len(r.sends) + 1].to = r.selected_emails[r.k].email
                /\ r.k < Len(r.selected_emails) =>
                     task'[t].pc = "sel_send" /\ task'[t].k = r.k + 1
                /\ r.k = Len(r.selected_emails) =>
                     task'[t].pc = "done" /\ task'[t].result.status = 200]_vars

\* C9 witness: a select call returned normally although its first send
\* failed; the second recipient was still mailed and the first application
\* keeps the round of the call.
C9_Witness ==
  \E t \in Tasks :
    /\ Returned(t, "select")
    /\ Len(task[t].sends) = 2
    /\ ~task[t].sends[1].ok /\ task[t].sends[2].ok
    /\ task[t].sends[1].to # task[t].sends[2].to
    /\ \E k \in AppIndex :
         /\ applications[k].id = task[t].updated[1]
         /\ applications[k].current_round = task[t].next_round

\* The student an application id belongs to.
StudentOf(app_id) == applications[find_one_by_id(applications, app_id)].student_id

\* C10: when select_for_round returns, it has made exactly one send attempt
\* per advance it applied, in order, each addressed to the student of the
\* advanced application.
C10_OneSendPerAdvance ==
  \A t \in Tasks :
    Returned(t, "select") =>
      /\ Len(task[t].sends) = Len(task[t].updated)
      /\ \A n \in 1 .. Len(task[t].updated) :
           task[t].sends[n].to = users[StudentOf(task[t].updated[n])].email

\* C10 witness: a call that advanced the same application twice has
\* returned, with two send attempts to its student.
C10_Witness ==
  \E t \in Tasks :
    /\ Returned(t, "select")
    /\ Len(task[t].updated) = 2
    /\ task[t].updated[1] = task[t].updated[2]
    /\ Len(task[t].sends) = 2

\* a is b with some elements left out, the others in the same order.
RECURSIVE IsSubsequence(_, _)
IsSubsequence(a, b) ==
  IF a = <<>> THEN TRUE
  ELSE IF b = <<>> THEN FALSE
  ELSE IF Head(a) = Head(b) THEN IsSubsequence(Tail(a), Tail(b))
  ELSE IsSubsequence(a, Tail(b))

\* C11: within one batch advance or reject call the storage updates are
\* applied in the order of the input list: the updates applied so far are
\* for ids at positions before the current one, in list order, and the
\* update step for position i touches only the application with id ids[i]
\* and moves on to position i + 1.
C11_UpdatesInListOrder ==
  /\ [](\A t \in Tasks :
          task[t].op \in {"select", "reject"} =>
            IsSubsequence(task[t].updated,
                          SubSeq(task[t].ids, 1, task[t].i - 1)))
  /\ [][\A t \in Tasks :
          LET r == task[t]
          IN  /\ (Steps(t, "sel_update") \/ Steps(t, "rej_update")) =>
                   /\ \A m \in AppIndex :
                        applications[m].id # r.ids[r.i] =>
                          applications'[m] = applications[m]
                   /\ task'[t].i = r.i + 1
                   /\ task'[t].ids = r.ids
              /\ Steps(t, "sel_find") =>
                   /\ applications' = applications
                   /\ task'[t].i \in {r.i, r.i + 1}
                   /\ task'[t].ids = r.ids]_vars

\* C11 witness: a reject call and a select call have returned, each after
\* updating two different applications in the order of its list.
C11_Witness ==
  \E t, u \in Tasks :
    /\ Returned(t, "reject") /\ Returned(u, "select")
    /\ \A w \in {t, u} :
         /\ Len(task[w].ids) = 2
         /\ task[w].ids[1] # task[w].ids[2]
         /\ task[w].updated = task[w].ids

\* Number of occurrences of x in the sequence q.
Count(x, q) == Cardinality({n \in 1 .. Len(q) : q[n] = x})

\* C12: when two select_for_round calls have overlapped and returned, and no
\* other request was started, no append is lost: each application's
\* round_history holds one entry per update the two calls applied to it,
\* with the rounds of those calls, and current_round is the round of the
\* entry appended last.
C12_NoLostAppend ==
  \A t, u \in Tasks :
    (t # u /\ calls = 2 /\ Returned(t, "select") /\ Returned(u, "select")) =>
      \A k \in AppIndex :
        LET a  == applications[k]
            nt == Count(a.id, task[t].updated)
            nu == Count(a.id, task[u].updated)
        IN  /\ Len(a.round_history) = nt + nu
            /\ \A round \in NextRoundInputs :
                 Cardinality({h \in 1 .. Len(a.round_history) :
                                a.round_history[h].round = round})
                   = (IF task[t].next_round = round THEN nt ELSE 0)
                       + (IF task[u].next_round = round THEN nu ELSE 0)
            /\ nt + nu > 0 =>
                 a.current_round = a.round_history[nt + nu].round

\* C12 witness: two overlapping calls advanced application 1 to different
\* rounds; its history has both entries and the second call's came first.
C12_Witness ==
  /\ calls = 2
  /\ Returned("t1", "select") /\ Returned("t2", "select")
  /\ task["t1"].updated = <<1>> /\ task["t2"].updated = <<1>>
  /\ task["t1"].next_round # task["t2"].next_round
  /\ Len(applications[1].round_history) = 2
  /\ applications[1].round_history[1].round = task["t2"].next_round
  /\ applications[1].current_round = task["t1"].next_round

(* ---------------------------- score_resume ---------------------------- *)

\* The call of score_resume has returned a score.
Scored == scoring.pc = "returned" /\ ~scoring.raised

\* A skill list as a case-normalized set.
LowerSet(skills) == {lower(s) : s \in SeqToSet(skills)}

\* The text is missing or empty.
Empty(text) == text = None \/ text = ""

\* C13: for all inputs (empty, zero, negative and above-10 values included)
\* the ai_score returned by score_resume lies in [0, 100].
C13_ScoreInRange ==
  Scored => scoring.ai_score >= 0 /\ scoring.ai_score <= 10000

\* C13 witness: identical texts, every required skill matched and a CGPA of
\* 12.0 add up to 102 points, returned as 100.
C13_Witness ==
  /\ Scored
  /\ scoring.student_cgpa = 120
  /\ scoring.text_score.num = 6000 * scoring.text_score.den
  /\ scoring.skills_score.num = 3000 * scoring.skills_score.den
  /\ scoring.ai_score = 10000

\* C14: the skills sub-score is 30 * |lower(student) \cap lower(required)| /
\* |lower(required)|, both taken as case-normalized sets, and 0 when either
\* collection is empty.
C14_SkillsSetRatio ==
  Scored =>
    LET student  == LowerSet(scoring.student_skills)
        required == LowerSet(scoring.required_skills)
        sk       == scoring.skills_score
    IN  IF student = {} \/ required = {}
        THEN sk.num = 0
        ELSE sk.num * Cardinality(required)
               = 3000 * Cardinality(student \cap required) * sk.den

\* C15: the skills sub-score lies in [0, 30]; the number of matched skills
\* never exceeds the divisor used for the required skills.
C15_SkillsInRange ==
  Scored =>
    LET sk == scoring.skills_score
    IN  /\ sk.num >= 0
        /\ sk.num <= 3000 * sk.den
        /\ scoring.student_skills # << >> /\ scoring.required_skills # << >> =>
             /\ sk.den = Len(scoring.required_skills)
             /\ sk.num = 3000 * Cardinality(LowerSet(scoring.student_skills)
                                              \cap LowerSet(scoring.required_skills))

\* C15 witness: the student lists the one required skill twice, in two
\* spellings, and gets the full 30 points.
C15_Witness ==
  /\ Scored
  /\ scoring.student_skills = <<"python", "Python">>
  /\ scoring.required_skills = <<"python">>
  /\ scoring.skills_score = [num |-> 3000, den |-> 1]

\* C16 as stated: the CGPA sub-score equals student_cgpa when student_cgpa >=
\* min_cgpa, (student_cgpa / min_cgpa) * 5 when below a positive min_cgpa and
\* 0 otherwise; a student below the threshold is still scored.
C16_CgpaScoreExact ==
  scoring.pc = "returned" =>
    LET cg == scoring.cgpa_score
    IN  /\ ~scoring.raised
        /\ IF scoring.student_cgpa >= scoring.min_cgpa
           THEN cg.num = scoring.student_cgpa * 10 * cg.den /\ cg.err = 0
           ELSE IF scoring.min_cgpa > 0
                THEN cg.num * scoring.min_cgpa = scoring.student_cgpa * 500 * cg.den
                ELSE cg.num = 0

\* C16: the CGPA sub-score is (student_cgpa / 10.0) * 10 when student_cgpa >=
\* min_cgpa, which is student_cgpa or one of the two doubles next to it;
\* (student_cgpa / min_cgpa) * 5 when below a positive min_cgpa and 0
\* otherwise; a student below the threshold is still scored.
C16_CgpaScoreNormalized ==
  scoring.pc = "returned" =>
    LET cg == scoring.cgpa_score
    IN  /\ ~scoring.raised
        /\ IF scoring.student_cgpa >= scoring.min_cgpa
           THEN cg.num = scoring.student_cgpa * 10 * cg.den /\ cg.err \in {-1, 0, 1}
           ELSE IF scoring.min_cgpa > 0
                THEN cg.num * scoring.min_cgpa = scoring.student_cgpa * 500 * cg.den
                ELSE cg.num = 0

\* C16 witness: an eligible student with CGPA 7.2 is given the double next
\* below 7.2.
C16_Witness ==
  /\ Scored
  /\ scoring.student_cgpa = 72 /\ scoring.min_cgpa = 70
  /\ scoring.cgpa_score = [num |-> 720, den |-> 1, err |-> -1]

\* C17 as stated: for min_cgpa > 0 every student_cgpa in [0, min_cgpa) gets a
\* sub-score strictly below 5, and student_cgpa = min_cgpa gets exactly
\* min_cgpa.
C17_JumpExact ==
  (Scored /\ scoring.min_cgpa > 0) =>
    LET cg == scoring.cgpa_score
    IN  /\ (scoring.student_cgpa >= 0 /\ scoring.student_cgpa < scoring.min_cgpa) =>
             cg.num < 500 * cg.den
        /\ scoring.student_cgpa = scoring.min_cgpa =>
             cg.num = scoring.min_cgpa * 10 * cg.den /\ cg.err = 0

\* C17: for min_cgpa > 0 every student_cgpa in [0, min_cgpa) gets a sub-score
\* strictly below 5, and student_cgpa = min_cgpa gets (min_cgpa / 10.0) * 10,
\* which is min_cgpa or one of the two doubles next to it.
C17_JumpNormalized ==
  (Scored /\ scoring.min_cgpa > 0) =>
    LET cg == scoring.cgpa_score
    IN  /\ (scoring.student_cgpa >= 0 /\ scoring.student_cgpa < scoring.min_cgpa) =>
             cg.num < 500 * cg.den
        /\ scoring.student_cgpa = scoring.min_cgpa =>
             cg.num = scoring.min_cgpa * 10 * cg.den /\ cg.err \in {-1, 0, 1}

\* C17 witness: at the threshold 7.2 the sub-score is the double next below
\* 7.2.
C17_Witness ==
  /\ Scored
  /\ scoring.student_cgpa = 72 /\ scoring.min_cgpa = 72
  /\ scoring.cgpa_score = [num |-> 720, den |-> 1, err |-> -1]

\* clamp(round(total, 2), 0, 100): round first, clamp second.
RoundThenClamp(total) ==
  LET rounded == round2(total.num, total.den)
  IN  IF rounded < 0 THEN 0 ELSE IF rounded > 10000 THEN 10000 ELSE rounded

\* C18: the value returned by score_resume (clamp first, round second) equals
\* clamp(round(total, 2), 0, 100) for every total of the three sub-scores.
C18_ClampRoundCommute ==
  Scored =>
    scoring.ai_score
      = RoundThenClamp(total_score(scoring.text_score, scoring.skills_score,
                                   scoring.cgpa_score))

\* C18 witness: a negative CGPA below the threshold makes the total -0.714...,
\* which rounds to -0.71 and clamps to 0.
C18_Witness ==
  /\ Scored
  /\ scoring.student_cgpa = -10 /\ scoring.min_cgpa = 70
  /\ scoring.text_score.num = 0 /\ scoring.skills_score.num = 0
  /\ scoring.cgpa_score.num < 0
  /\ scoring.ai_score = 0

\* C19: score_resume returns a score and never raises, whatever the inputs:
\* missing or empty resume text, empty job description, empty skill lists,
\* student_cgpa = 0 and min_cgpa = 0 included.
C19_NeverRaises ==
  scoring.pc = "returned" => ~scoring.raised

\* C19 witness: every input is degenerate and the score returned is 0.
C19_Witness ==
  /\ Scored
  /\ scoring.resume_text = None /\ scoring.job_description = ""
  /\ scoring.student_skills = << >> /\ scoring.required_skills = << >>
  /\ scoring.student_cgpa = 0 /\ scoring.min_cgpa = 0
  /\ scoring.ai_score = 0

\* The example of C20: empty resume text, student skills {java, sql},
\* required skills {java, python}, CGPA 8.5 and min_cgpa 7.0.
C20_Example ==
  /\ scoring.resume_text = ""
  /\ scoring.student_skills = <<"java", "sql">>
  /\ scoring.required_skills = <<"java", "python">>
  /\ scoring.student_cgpa = 85 /\ scoring.min_cgpa = 70

\* C20 as stated: when the resume text or the job description is empty the
\* text sub-score is 0 and the composite equals the clamped sum of the skills
\* and CGPA sub-scores; the example gives 23.5.
C20_EmptyTextExactSum ==
  (Scored /\ (Empty(scoring.resume_text) \/ Empty(scoring.job_description))) =>
    LET sum == total_score(ZeroScore, scoring.skills_score, scoring.cgpa_score)
        lo  == IF sum.num < 0 THEN 0 ELSE sum.num
        hi  == IF lo > 10000 * sum.den THEN 10000 * sum.den ELSE lo
    IN  /\ scoring.text_score.num = 0
        /\ scoring.ai_score * sum.den = hi
        /\ C20_Example => scoring.ai_score = 2350

\* C20: when the resume text or the job description is empty the text
\* sub-score is 0 and the composite equals the clamped sum of the skills and
\* CGPA sub-scores rounded to two decimals; the example gives 23.5.
C20_EmptyTextRoundedSum ==
  (Scored /\ (Empty(scoring.resume_text) \/ Empty(scoring.job_description))) =>
    LET sum == total_score(ZeroScore, scoring.skills_score, scoring.cgpa_score)
        lo  == IF sum.num < 0 THEN 0 ELSE sum.num
        hi  == IF lo > 10000 * sum.den THEN 10000 * sum.den ELSE lo
    IN  /\ scoring.text_score.num = 0
        /\ scoring.ai_score = round2(hi, sum.den)
        /\ C20_Example => scoring.ai_score = 2350

\* C20 witness: the example has been scored.
C20_Witness ==
  /\ Scored
  /\ C20_Example
  /\ scoring.job_description = "python developer"
  /\ scoring.ai_score = 2350

(* ------------------------------ ranking ------------------------------ *)

\* The step by which slot t takes and answers a ranking request.
Ranks(t) ==
  /\ calls' = calls + 1
  /\ FreeSlot(t)
  /\ task'[t].op = "rank"
  /\ task'[t].result.status = 200

CreatedFields(a) ==
  [id |-> a.id, drive_id |-> a.drive_id, student_id |-> a.student_id,
   status |-> a.status, ai_score |-> a.ai_score, applied_at |-> a.applied_at]

\* C22: after an application is created, no advance, reject or ranking step
\* changes its ai_score, drive_id, student_id, status or applied_at; advance
\* writes only current_round and round_history, reject only current_round,
\* ranking nothing.
C22_CreatedFieldsFrozen ==
  [][/\ Len(applications') >= Len(applications)
     /\ \A k \in AppIndex :
          /\ CreatedFields(applications'[k]) = CreatedFields(applications[k])
          /\ (\E t \in Tasks : Steps(t, "rej_update")) =>
               applications'[k].round_history = applications[k].round_history
          /\ (\E t \in Tasks : Ranks(t)) => applications'[k] = applications[k]]_vars

\* C22 witness: application 1 was advanced and then rejected and still has
\* the fields it was created with.
C22_Witness ==
  /\ Len(applications) >= 1
  /\ applications[1].current_round = "Rejected"
  /\ Len(applications[1].round_history) = 1
  /\ CreatedFields(applications[1]) = CreatedFields(StoredApplication(1))

\* C23: an apply_to_drive request that finds an existing application for its
\* (student, drive), or no profile for the student, or no drive with the
\* given id, ends with an error and leaves the applications collection as it
\* was: nothing is inserted, no score is stored.
C23_FailedApplyInsertsNothing ==
  [][\A t \in Tasks :
       LET r      == task[t]
           failed == /\ task'[t].pc = "done"
                     /\ task'[t].result.status \in {400, 404}
                     /\ applications' = applications
                     /\ uuids' = uuids
       IN  /\ (Steps(t, "apply_check")
                 /\ find_one_by_pair(applications, r.drive_id, r.user) # 0) => failed
           /\ (Steps(t, "apply_lookup")
                 /\ (r.user \notin DOMAIN profiles \/ r.drive_id \notin DOMAIN drives)) =>
                failed
           /\ (r.op = "apply" /\ task'[t] # r /\ task'[t].op = "apply"
                 /\ task'[t].result.status \in {400, 403, 404}) =>
                applications' = applications]_vars

\* C23 witness: an apply request ended with error 400 and the collection
\* holds what it held at the start.
C23_Witness ==
  \E t \in Tasks :
    /\ calls = 1
    /\ task[t].op = "apply" /\ task[t].pc = "done"
    /\ task[t].result.status = 400
    /\ Len(applications) = MaxStored /\ uuids = MaxStored

\* C24: a newly created application has current_round Applied and an empty
\* round_history, and advance accepts any target round: advancing it directly
\* to Coding (or Selected) yields that current_round and a round_history of
\* exactly one entry, for that round, with no entry for Applied.
C24_FreshThenAnyRound ==
  [][\A t \in Tasks :
       LET r == task[t]
       IN  /\ Steps(t, "apply_insert") =>
                /\ Len(applications') = Len(applications) + 1
                /\ applications'[Len(applications')].current_round = "Applied"
                /\ applications'[Len(applications')].round_history = << >>
           /\ Steps(t, "sel_update") =>
                \A k \in AppIndex :
                  (/\ k = find_one_by_id(applications, r.ids[r.i])
                   /\ applications[k].current_round = "Applied"
                   /\ applications[k].round_history = << >>) =>
                     /\ applications'[k].current_round = r.next_round
                     /\ Len(applications'[k].round_history) = 1
                     /\ applications'[k].round_history[1].round = r.next_round]_vars

\* C24 witness: an application created by an apply request was advanced
\* straight to Coding and its history is the one Coding record.
C24_Witness ==
  /\ Len(applications) = MaxStored + 1
  /\ applications[MaxStored + 1].current_round = "Coding"
  /\ Len(applications[MaxStored + 1].round_history) = 1
  /\ applications[MaxStored + 1].round_history[1].round = "Coding"

\* C25: Selected is terminal: once an application's current_round is
\* Selected, no later advance or reject step changes its current_round.
C25_SelectedTerminal ==
  [][\A k \in AppIndex :
       applications[k].current_round = "Selected" =>
         applications'[k].current_round = "Selected"]_vars

\* C27: in every reachable state each application satisfies: if round_history
\* is empty then current_round is Applied or Rejected, and if round_history is
\* non-empty and current_round is not Rejected then current_round is the round
\* of the last round_history entry.
C27_CurrentRoundMatchesHistory ==
  \A k \in AppIndex :
    LET a == applications[k]
    IN  IF a.round_history = << >>
        THEN a.current_round \in {"Applied", "Rejected"}
        ELSE a.current_round # "Rejected" =>
               a.current_round = a.round_history[Len(a.round_history)].round

\* C27 witness: two overlapping advance calls to different rounds have both
\* updated application 1; its current_round is the round pushed last.
C27_Witness ==
  /\ Len(applications) >= 1
  /\ Len(applications[1].round_history) = 2
  /\ applications[1].round_history[1].round # applications[1].round_history[2].round
  /\ applications[1].current_round = applications[1].round_history[2].round
  /\ \A t \in Tasks : task[t].op = "select" /\ task[t].pc \in {"sel_send", "sel_find", "done"}

\* C29: select_for_round advances only applications whose drive_id equals the
\* drive_id of the request, and sends its notification (which names the
\* request's drive) only to their students; an application id of another
\* drive is left unchanged.
C29_OnlyRequestedDrive ==
  [][\A t \in Tasks :
       Steps(t, "sel_update") =>
         /\ \A k \in AppIndex :
              applications[k].drive_id # task[t].drive_id =>
                applications'[k] = applications[k]
         /\ \A k \in AppIndex :
              (k = find_one_by_id(applications, task[t].ids[task[t].i])
                 /\ applications[k].drive_id # task[t].drive_id) =>
                task'[t].selected_emails = task[t].selected_emails]_vars

\* C26: under fair scheduling of the storage and notification responses,
\* every batch advance or reject call that has started on its list
\* eventually returns its result, having gone through every id of the list,
\* whatever unknown ids and failing sends it meets.
C26_BatchRunsToCompletion ==
  \A t \in Tasks :
    (task[t].pc \in {"sel_find", "sel_update", "sel_send", "rej_update"})
      ~> (/\ task[t].pc = "done"
          /\ task[t].op \in {"select", "reject"}
          /\ task[t].result.status = 200
          /\ task[t].result.count = Len(task[t].ids)
          /\ task[t].i = Len(task[t].ids) + 1)

\* C26 witness: an advance call returned after a list with an unknown id and
\* a send that failed.
C26_Witness ==
  \E t \in Tasks :
    /\ Returned(t, "select")
    /\ Len(task[t].ids) = 2
    /\ Len(task[t].updated) = 1
    /\ task[t].i = 3
    /\ task[t].sends # << >> /\ ~task[t].sends[1].ok

\* C28: for a fixed min_cgpa > 0 and CGPAs in [0, 10], every student with
\* student_cgpa >= min_cgpa receives a CGPA sub-score greater than or equal to
\* that of every student with student_cgpa < min_cgpa.
C28_EligibleNeverWorse ==
  (/\ Scored
   /\ scoring.min_cgpa > 0
   /\ scoring.student_cgpa >= scoring.min_cgpa
   /\ scoring.student_cgpa <= 100) =>
    \A other_cgpa \in CgpaInputs :
      (other_cgpa >= 0 /\ other_cgpa < scoring.min_cgpa) =>
        LET met    == scoring.cgpa_score
            missed == cgpa_score(other_cgpa, scoring.min_cgpa)
        IN  met.num * missed.den >= missed.num * met.den

====
